---------------------------- MODULE Spec2Model ----------------------------
(***************************************************************************)
(* Model of the 6-DOF robotic arm firmware (PCA9685 servo controller):     *)
(* the serial line reader and command parser of loop()/parseCommand(), the *)
(* channel state (currentAngles/targetAngles), and the smooth-movement     *)
(* scheduler updateSmoothMovement().                                       *)
(*                                                                         *)
(* Characters are one-character strings, the Arduino String a sequence of  *)
(* characters.  One state of the model is the program at the test of the   *)
(* while loop of loop(): ReadByte is one iteration of the while body       *)
(* (Serial.available() > 0), Tick is the exit of the while loop followed   *)
(* by updateSmoothMovement() (Serial.available() == 0).  Send and Advance  *)
(* are the environment: the sender putting a line on the wire and the      *)
(* millisecond clock advancing.                                            *)
(***************************************************************************)
EXTENDS Integers, Sequences, FiniteSets, TLC

VARIABLES
    currentAngles,  \* int currentAngles[SERVO_COUNT], indexed 0..5
    targetAngles,   \* int targetAngles[SERVO_COUNT], indexed 0..5
    lastUpdate,     \* unsigned long lastUpdate
    inputBuffer,    \* String inputBuffer
    now,            \* the value millis() returns, unsigned 32 bit
    elapsed,        \* milliseconds the clock has advanced since setup() returned
    feed,           \* bytes of the line being sent that have not arrived yet
    intBits,        \* width of int on the board: 16 (AVR) or 32 (ARM, ESP32)
    serialOut,      \* the diagnostics the last step printed on Serial
    pwmWrites,      \* the pwm.setPWM(channel, 0, pulse) calls of the last step
    pwmOut,         \* the pulse each PCA9685 channel 0..5 was last set to
    cmdCurrent,     \* currentAngles[i] when channel i last took a command
    firings,        \* scheduler firings since channel i last took a command
    overflowed,     \* the line being read has overflowed inputBuffer
    pc,             \* "setup" while setup() has not returned, then "loop"
    tickSeen,       \* flips at every call of updateSmoothMovement() that is observed
    pulseArgs,      \* a pair of arguments of angleToPulse()
    pulseRes        \* the pulses angleToPulse() returned for pulseArgs, or <<>>

vars == <<currentAngles, targetAngles, lastUpdate, inputBuffer, now, elapsed,
          feed, intBits, serialOut, pwmWrites, pwmOut, cmdCurrent, firings,
          overflowed, pc, tickSeen, pulseArgs, pulseRes>>

-----------------------------------------------------------------------------
(* Program constants *)

SERVO_MIN == 150
SERVO_MAX == 600
SERVO_COUNT == 6
SMOOTH_STEP == 2
UPDATE_INTERVAL == 15
HOME_ANGLE == 90
ANGLE_MAX == 180
BUFFER_LIMIT == 10
SETUP_DELAY_PWM == 10
SETUP_DELAY_HOME == 500
ULONG_BITS == 32

Channels == 0 .. (SERVO_COUNT - 1)

Pow2(n) == 2 ^ n

\* the value an n-bit two's complement integer holds after v is stored in it
ToSigned(v, n) ==
    LET m == v % Pow2(n)
    IN  IF m >= Pow2(n - 1) THEN m - Pow2(n) ELSE m

\* An unsigned long is held as its two 16 bit halves, [hi, lo], since the
\* model checker's integers are 32 bit signed.
HALF_BITS == ULONG_BITS \div 2

ULong(n) == [hi |-> (n \div Pow2(HALF_BITS)) % Pow2(HALF_BITS), lo |-> n % Pow2(HALF_BITS)]

\* unsigned long addition of d < 2^16, modulo 2^32
UAdd(a, d) ==
    LET lo == a.lo + d
    IN  [hi |-> (a.hi + lo \div Pow2(HALF_BITS)) % Pow2(HALF_BITS),
         lo |-> lo % Pow2(HALF_BITS)]

\* unsigned long subtraction, modulo 2^32: currentTime - lastUpdate
USub(a, b) ==
    LET lo     == a.lo - b.lo
        borrow == IF lo < 0 THEN 1 ELSE 0
    IN  [hi |-> (a.hi - b.hi - borrow) % Pow2(HALF_BITS),
         lo |-> lo % Pow2(HALF_BITS)]

\* unsigned comparison a >= n for n < 2^16
UGe(a, n) == a.hi > 0 \/ a.lo >= n

-----------------------------------------------------------------------------
(* Arduino core: constrain, map, String::trim, String::toInt *)

constrain(x, lo, hi) == IF x < lo THEN lo ELSE IF x > hi THEN hi ELSE x

\* long map(long x, long in_min, long in_max, long out_min, long out_max)
map(x, in_min, in_max, out_min, out_max) ==
    LET num == (x - in_min) * (out_max - out_min)
        den == in_max - in_min
        q   == IF num >= 0 THEN num \div den ELSE -((-num) \div den)
    IN  q + out_min

Digits == <<"0", "1", "2", "3", "4", "5", "6", "7", "8", "9">>

IsDigit(c) == \E i \in 1 .. 10 : Digits[i] = c

DigitVal(c) == (CHOOSE i \in 1 .. 10 : Digits[i] = c) - 1

\* isspace(): space, \t, \n, \r, \f (\v is not in the alphabets used)
IsSpace(c) == c \in {" ", "\t", "\n", "\r", "\f"}

\* String::trim(): drops the leading and the trailing isspace() characters
trim(s) ==
    LET keep == {i \in 1 .. Len(s) : ~IsSpace(s[i])}
    IN  IF keep = {} THEN <<>>
        ELSE LET lo == CHOOSE i \in keep : \A j \in keep : i <= j
                 hi == CHOOSE i \in keep : \A j \in keep : j <= i
             IN  SubSeq(s, lo, hi)

\* String::substring(from) and String::substring(from, to), zero-based
substringFrom(s, from) == SubSeq(s, from + 1, Len(s))
substring(s, from, to) == SubSeq(s, from + 1, to)

\* the digits of atol(): accumulates decimal digits from position i until the
\* first character that is not a digit
RECURSIVE atolDigits(_, _, _)
atolDigits(s, i, acc) ==
    IF i > Len(s) \/ ~IsDigit(s[i]) THEN acc
    ELSE atolDigits(s, i + 1, acc * 10 + DigitVal(s[i]))

\* atol(): skips leading white space, takes an optional sign, then the digits;
\* the result is a 32 bit long, which the at most 10 digits of a line that
\* fits inputBuffer overflow only above 2147483647
atol(s) ==
    LET sp    == {i \in 1 .. Len(s) : ~IsSpace(s[i])}
        start == IF sp = {} THEN Len(s) + 1
                 ELSE CHOOSE i \in sp : \A j \in sp : i <= j
        neg   == start <= Len(s) /\ s[start] = "-"
        sign  == start <= Len(s) /\ s[start] \in {"-", "+"}
        mag   == atolDigits(s, IF sign THEN start + 1 ELSE start, 0)
    IN  IF neg THEN -mag ELSE mag

\* int x = s.toInt(): String::toInt() returns the long of atol(), which the
\* assignment converts to an int of the board's width
toInt(s, bits) == IF bits >= ULONG_BITS THEN atol(s) ELSE ToSigned(atol(s), bits)

-----------------------------------------------------------------------------
(* The handlers.  A handler works on a record st:                          *)
(*   cur, tgt  currentAngles and targetAngles                              *)
(*   out       the lines it printed on Serial, in order                    *)
(*   writes    its pwm.setPWM calls <<channel, pulse>>, in order           *)
(*   stored    the indexes i whose targetAngles[i] it assigned             *)

Diag(kind, val, text) == [kind |-> kind, val |-> val, text |-> text]

ERR_SHORT   == "ERR: Command too short"
ERR_INDEX   == "ERR: Invalid servo index"
ERR_ANGLE   == "ERR: Invalid angle"
ERR_LONG    == "ERR: Command too long, resetting buffer"

\* whether a diagnostic of this kind is among the lines out
HasKind(out, kind) == \E k \in 1 .. Len(out) : out[k].kind = kind

Quiet(cur, tgt) ==
    [cur |-> cur, tgt |-> tgt, out |-> <<>>, writes |-> <<>>, stored |-> {}]

\* angleToPulse without constrain
angleToPulseNoClamp(angle) ==
    map(angle, 0, ANGLE_MAX, SERVO_MIN, SERVO_MAX)

\* int angleToPulse(int angle)
angleToPulse(angle) ==
    map(constrain(angle, 0, ANGLE_MAX), 0, ANGLE_MAX, SERVO_MIN, SERVO_MAX)

\* void moveServoImmediate(int servoIndex, int angle)
moveServoImmediate(st, servoIndex, angle) ==
    IF servoIndex < 1 \/ servoIndex > SERVO_COUNT
    THEN [st EXCEPT !.out = Append(@, Diag(ERR_INDEX, servoIndex, <<>>))]
    ELSE LET a     == constrain(angle, 0, ANGLE_MAX)
             pulse == angleToPulse(a)
         IN  [st EXCEPT !.writes = Append(@, <<servoIndex - 1, pulse>>),
                        !.cur[servoIndex - 1] = a,
                        !.tgt[servoIndex - 1] = a]

\* setTargetAngle that also stores the angle in currentAngles
setTargetAngleJump(st, servoIndex, angle) ==
    IF servoIndex < 1 \/ servoIndex > SERVO_COUNT
    THEN [st EXCEPT !.out = Append(@, Diag(ERR_INDEX, servoIndex, <<>>))]
    ELSE [st EXCEPT !.tgt[servoIndex - 1] = constrain(angle, 0, ANGLE_MAX),
                    !.cur[servoIndex - 1] = constrain(angle, 0, ANGLE_MAX),
                    !.stored = @ \cup {servoIndex - 1}]

\* setTargetAngle with targetAngles[servoIndex - 1] += angle
setTargetAngleRelative(st, servoIndex, angle) ==
    IF servoIndex < 1 \/ servoIndex > SERVO_COUNT
    THEN [st EXCEPT !.out = Append(@, Diag(ERR_INDEX, servoIndex, <<>>))]
    ELSE [st EXCEPT !.tgt[servoIndex - 1] = constrain(@ + angle, 0, ANGLE_MAX),
                    !.stored = @ \cup {servoIndex - 1}]

\* setTargetAngle that drops the command while the channel is on its way
setTargetAngleBusy(st, servoIndex, angle) ==
    IF servoIndex < 1 \/ servoIndex > SERVO_COUNT
    THEN [st EXCEPT !.out = Append(@, Diag(ERR_INDEX, servoIndex, <<>>))]
    ELSE IF st.cur[servoIndex - 1] # st.tgt[servoIndex - 1]
    THEN st
    ELSE [st EXCEPT !.tgt[servoIndex - 1] = constrain(angle, 0, ANGLE_MAX),
                    !.stored = @ \cup {servoIndex - 1}]

\* void setTargetAngle(int servoIndex, int angle)
setTargetAngle(st, servoIndex, angle) ==
    IF servoIndex < 1 \/ servoIndex > SERVO_COUNT
    THEN [st EXCEPT !.out = Append(@, Diag(ERR_INDEX, servoIndex, <<>>))]
    ELSE [st EXCEPT !.tgt[servoIndex - 1] = constrain(angle, 0, ANGLE_MAX),
                    !.stored = @ \cup {servoIndex - 1}]

\* stepToward with += and -= exchanged
stepTowardSwapped(current, target) ==
    IF current < target
    THEN LET c == current - SMOOTH_STEP IN IF c > target THEN target ELSE c
    ELSE LET c == current + SMOOTH_STEP IN IF c < target THEN target ELSE c

\* stepToward without the two overshoot tests
stepTowardNoClamp(current, target) ==
    IF current < target THEN current + SMOOTH_STEP ELSE current - SMOOTH_STEP

\* the body of the if (current != target) of updateSmoothMovement: the new
\* value of current
stepToward(current, target) ==
    IF current < target
    THEN LET c == current + SMOOTH_STEP IN IF c > target THEN target ELSE c
    ELSE LET c == current - SMOOTH_STEP IN IF c < target THEN target ELSE c

\* smoothLoop without the test current != target
RECURSIVE smoothLoopAlways(_, _)
smoothLoopAlways(st, i) ==
    IF i >= SERVO_COUNT THEN st
    ELSE LET current == st.cur[i]
             target  == st.tgt[i]
             c       == IF current # target THEN stepToward(current, target)
                        ELSE current
         IN  smoothLoopAlways([st EXCEPT
                 !.writes = Append(@, <<i, angleToPulse(c)>>),
                 !.cur[i] = c], i + 1)

\* smoothLoop with the pulse computed before current is stepped
RECURSIVE smoothLoopStalePulse(_, _)
smoothLoopStalePulse(st, i) ==
    IF i >= SERVO_COUNT THEN st
    ELSE LET current == st.cur[i]
             target  == st.tgt[i]
         IN  IF current # target
             THEN LET c == stepToward(current, target)
                  IN  smoothLoopStalePulse([st EXCEPT
                          !.writes = Append(@, <<i, angleToPulse(current)>>),
                          !.cur[i] = c], i + 1)
             ELSE smoothLoopStalePulse(st, i + 1)

\* smoothLoop with pwm.setPWM(i + 1, 0, pulse)
RECURSIVE smoothLoopOneBased(_, _)
smoothLoopOneBased(st, i) ==
    IF i >= SERVO_COUNT THEN st
    ELSE LET current == st.cur[i]
             target  == st.tgt[i]
         IN  IF current # target
             THEN LET c == stepToward(current, target)
                  IN  smoothLoopOneBased([st EXCEPT
                          !.writes = Append(@, <<i + 1, angleToPulse(c)>>),
                          !.cur[i] = c], i + 1)
             ELSE smoothLoopOneBased(st, i + 1)

\* the for loop of updateSmoothMovement, from index i on
RECURSIVE smoothLoop(_, _)
smoothLoop(st, i) ==
    IF i >= SERVO_COUNT THEN st
    ELSE LET current == st.cur[i]
             target  == st.tgt[i]
         IN  IF current # target
             THEN LET c == stepToward(current, target)
                  IN  smoothLoop([st EXCEPT
                          !.writes = Append(@, <<i, angleToPulse(c)>>),
                          !.cur[i] = c], i + 1)
             ELSE smoothLoop(st, i + 1)

\* intervalElapsed as currentTime >= lastUpdate + UPDATE_INTERVAL
intervalElapsedSum(currentTime, last) ==
    LET due == UAdd(last, UPDATE_INTERVAL)
    IN  currentTime.hi > due.hi \/ (currentTime.hi = due.hi /\ currentTime.lo >= due.lo)

\* whether updateSmoothMovement fires at time currentTime
intervalElapsed(currentTime, last) == UGe(USub(currentTime, last), UPDATE_INTERVAL)

\* parseCommand with the angle test angle >= 180 in place of angle > 180
parseCommandOffByOne(st, buffer, bits) ==
    LET input      == trim(buffer)
        servoIndex == toInt(substring(input, 0, 1), bits)
        angle      == toInt(substringFrom(input, 1), bits)
    IN  IF Len(input) < 2
        THEN [st EXCEPT !.out = Append(@, Diag(ERR_SHORT, 0, input))]
        ELSE IF servoIndex < 1 \/ servoIndex > SERVO_COUNT
        THEN [st EXCEPT !.out = Append(@, Diag(ERR_INDEX, servoIndex, input))]
        ELSE IF angle < 0 \/ angle >= ANGLE_MAX
        THEN [st EXCEPT !.out = Append(@, Diag(ERR_ANGLE, angle, input))]
        ELSE setTargetAngle(st, servoIndex, angle)

\* parseCommand with the angle validated before the servo index
parseCommandAngleFirst(st, buffer, bits) ==
    LET input      == trim(buffer)
        servoIndex == toInt(substring(input, 0, 1), bits)
        angle      == toInt(substringFrom(input, 1), bits)
    IN  IF Len(input) < 2
        THEN [st EXCEPT !.out = Append(@, Diag(ERR_SHORT, 0, input))]
        ELSE IF angle < 0 \/ angle > ANGLE_MAX
        THEN [st EXCEPT !.out = Append(@, Diag(ERR_ANGLE, angle, input))]
        ELSE IF servoIndex < 1 \/ servoIndex > SERVO_COUNT
        THEN [st EXCEPT !.out = Append(@, Diag(ERR_INDEX, servoIndex, input))]
        ELSE setTargetAngle(st, servoIndex, angle)

\* parseCommand that rejects an angle field with a character that is no digit
parseCommandStrict(st, buffer, bits) ==
    LET input      == trim(buffer)
        servoIndex == toInt(substring(input, 0, 1), bits)
        field      == substringFrom(input, 1)
        angle      == toInt(field, bits)
    IN  IF Len(input) < 2
        THEN [st EXCEPT !.out = Append(@, Diag(ERR_SHORT, 0, input))]
        ELSE IF servoIndex < 1 \/ servoIndex > SERVO_COUNT
        THEN [st EXCEPT !.out = Append(@, Diag(ERR_INDEX, servoIndex, input))]
        ELSE IF angle < 0 \/ angle > ANGLE_MAX
                \/ \E k \in 1 .. Len(field) : ~IsDigit(field[k])
        THEN [st EXCEPT !.out = Append(@, Diag(ERR_ANGLE, angle, input))]
        ELSE setTargetAngle(st, servoIndex, angle)

\* void parseCommand(String input)
parseCommand(st, buffer, bits) ==
    LET input      == trim(buffer)
        servoIndex == toInt(substring(input, 0, 1), bits)
        angle      == toInt(substringFrom(input, 1), bits)
    IN  IF Len(input) < 2
        THEN [st EXCEPT !.out = Append(@, Diag(ERR_SHORT, 0, input))]
        ELSE IF servoIndex < 1 \/ servoIndex > SERVO_COUNT
        THEN [st EXCEPT !.out = Append(@, Diag(ERR_INDEX, servoIndex, input))]
        ELSE IF angle < 0 \/ angle > ANGLE_MAX
        THEN [st EXCEPT !.out = Append(@, Diag(ERR_ANGLE, angle, input))]
        ELSE setTargetAngle(st, servoIndex, angle)

\* homeLoop with moveServoImmediate(i, 90)
RECURSIVE homeLoopZeroBased(_, _)
homeLoopZeroBased(st, i) ==
    IF i >= SERVO_COUNT THEN st
    ELSE homeLoopZeroBased(moveServoImmediate(st, i, HOME_ANGLE), i + 1)

\* the for loop of setup(), from index i on
RECURSIVE homeLoop(_, _)
homeLoop(st, i) ==
    IF i >= SERVO_COUNT THEN st
    ELSE homeLoop(moveServoImmediate(st, i + 1, HOME_ANGLE), i + 1)

\* the initialisers of the global arrays
StaticAngles == [i \in Channels |-> 90]

\* void setup(): the program state when it returns
setup == homeLoop(Quiet(StaticAngles, StaticAngles), 0)

\* the PCA9685 outputs after the writes ws, in order
RECURSIVE applyWrites(_, _)
applyWrites(out, ws) ==
    IF ws = <<>> THEN out
    ELSE applyWrites([out EXCEPT ![Head(ws)[1]] = Head(ws)[2]], Tail(ws))

\* void updateSmoothMovement(), millis() returning currentTime: the program
\* state and lastUpdate when it returns
updateSmoothMovement(st, last, currentTime) ==
    IF intervalElapsed(currentTime, last)
    THEN [st |-> smoothLoop(st, 0), last |-> currentTime]
    ELSE [st |-> st, last |-> last]

\* readByte without inputBuffer = "" after parseCommand
readByteKeepLine(st, buffer, inChar, bits) ==
    IF inChar = "\n"
    THEN IF Len(buffer) > 0
         THEN [st |-> parseCommand(st, buffer, bits), buf |-> buffer]
         ELSE [st |-> st, buf |-> buffer]
    ELSE LET b == Append(buffer, inChar)
         IN  IF Len(b) > BUFFER_LIMIT
             THEN [st  |-> [st EXCEPT !.out = Append(@, Diag(ERR_LONG, 0, <<>>))],
                   buf |-> <<>>]
             ELSE [st |-> st, buf |-> b]

\* readByte without inputBuffer = "" on overflow
readByteKeepOverflow(st, buffer, inChar, bits) ==
    IF inChar = "\n"
    THEN IF Len(buffer) > 0
         THEN [st |-> parseCommand(st, buffer, bits), buf |-> <<>>]
         ELSE [st |-> st, buf |-> buffer]
    ELSE LET b == Append(buffer, inChar)
         IN  IF Len(b) > BUFFER_LIMIT
             THEN [st  |-> [st EXCEPT !.out = Append(@, Diag(ERR_LONG, 0, <<>>))],
                   buf |-> b]
             ELSE [st |-> st, buf |-> b]

\* readByte with the overflow test length() >= 10 in place of length() > 10
readByteEarlyOverflow(st, buffer, inChar, bits) ==
    IF inChar = "\n"
    THEN IF Len(buffer) > 0
         THEN [st |-> parseCommand(st, buffer, bits), buf |-> <<>>]
         ELSE [st |-> st, buf |-> buffer]
    ELSE LET b == Append(buffer, inChar)
         IN  IF Len(b) >= BUFFER_LIMIT
             THEN [st  |-> [st EXCEPT !.out = Append(@, Diag(ERR_LONG, 0, <<>>))],
                   buf |-> <<>>]
             ELSE [st |-> st, buf |-> b]

\* readByte without the test inputBuffer.length() > 0
readByteParseEmpty(st, buffer, inChar, bits) ==
    IF inChar = "\n"
    THEN [st |-> parseCommand(st, buffer, bits), buf |-> <<>>]
    ELSE LET b == Append(buffer, inChar)
         IN  IF Len(b) > BUFFER_LIMIT
             THEN [st  |-> [st EXCEPT !.out = Append(@, Diag(ERR_LONG, 0, <<>>))],
                   buf |-> <<>>]
             ELSE [st |-> st, buf |-> b]

\* one iteration of the while loop of loop(), Serial.read() returning inChar:
\* the program state and inputBuffer after it
readByte(st, buffer, inChar, bits) ==
    IF inChar = "\n"
    THEN IF Len(buffer) > 0
         THEN [st |-> parseCommand(st, buffer, bits), buf |-> <<>>]
         ELSE [st |-> st, buf |-> buffer]
    ELSE LET b == Append(buffer, inChar)
         IN  IF Len(b) > BUFFER_LIMIT
             THEN [st  |-> [st EXCEPT !.out = Append(@, Diag(ERR_LONG, 0, <<>>))],
                   buf |-> <<>>]
             ELSE [st |-> st, buf |-> b]

-----------------------------------------------------------------------------
(* Bounds of the model *)

\* milliseconds the clock advances after setup() in Spec
MaxElapsed == 30
\* milliseconds the clock advances after setup() in SpecMotion
MotionMaxElapsed == 1365
\* the longest line of SpecParse that is drawn from every string of ParseAlphabet
ParseMaxLen == 3
\* SpecParse draws the angle fields 0 .. ParseMaxAngle in decimal
ParseMaxAngle == 200
\* SpecPulse draws the arguments of angleToPulse() this far outside 0 .. 180
PulseMargin == 20
\* milliseconds the clock advances in SpecClock
ClockMaxElapsed == 60

\* the steps of the clock between two steps of the program
TimeSteps == {UPDATE_INTERVAL - 1, UPDATE_INTERVAL}
MotionTimeSteps == {UPDATE_INTERVAL}

\* the widths of int of the boards the sketch builds for
IntWidths == {16, 32}

NL == <<"\n">>

\* the decimal digits of n >= 0
RECURSIVE Dec(_)
Dec(n) == IF n < 10 THEN <<Digits[n + 1]>> ELSE Dec(n \div 10) \o <<Digits[(n % 10) + 1]>>

\* the lines sent in Spec, each with its terminator
Corpus ==
    { <<"1", "9", "0">> \o NL,
      <<"1", "8", "6">> \o NL,
      <<"1", "9", "1">> \o NL,
      <<"5", "1", "2", "0">> \o NL,
      <<"5", "9", "3">> \o NL,
      <<"1", "2", "0", "0">> \o NL,
      <<"7", "9", "9", "9">> \o NL,
      <<"1">> \o NL,
      NL,
      <<"0", "0", "0", "0", "0", "0", "0", "0", "0", "0", "0", "5", "8", "8">> \o NL }

\* SpecParse: the characters of the lines drawn exhaustively, the channel
\* digits of the lines with a decimal angle field, the lines that come before
\* the line drawn, and further lines
ParseAlphabet == {"0", "1", "2", "6", "7", "9", " ", "-", "a"}
ParseChannels == {"1", "5", "6"}
ParsePrefixes ==
    { <<>>,
      <<"1", "0">> \o NL \o <<"5", "0">> \o NL \o <<"6", "0">> \o NL,
      <<"7", "9", "9", "9">> \o NL }
ParseSpecials ==
    { <<"5", "1", "2", "0">>,
      <<"1", "2", "0", "0">>,
      <<"7", "9", "9", "9">>,
      <<"1", "0", "0", "0", "0", "0", "0", "0", "9", "0">>,
      <<"1", "0", "0", "0", "0", "0", "0", "1", "8", "1">>,
      <<"1", "9", "9", "9", "9", "9", "9", "9", "9", "9">>,
      <<"1", "6", "5", "5", "3", "5">>,
      <<"1", "6", "5", "6", "2", "6">>,
      <<"1", "6", "5", "7", "1", "7">>,
      <<"1", "-", "6", "5", "4", "4", "6">>,
      <<"1", "-", "5">>,
      <<"1", "+", "9", "0">>,
      <<"1", " ", "9", "0">>,
      <<"1", "9", "0", "\r">>,
      <<" ", "1", "9", "0", " ">>,
      <<"1", "9", "0", "x">>,
      <<"1", "a", "b", "c">>,
      <<"3", "a", "b", "c">>,
      <<"3", "9", "5", "x">>,
      <<"\r">>,
      <<" ", "1", " ">>,
      <<"9", "9", "9", "9", "9", "9", "9", "9", "9", "9">>,
      <<"1", "2", "3", "4", "5", "6", "7", "8", "9", "0", "1", "1", "9", "0">>,
      <<"0", "0", "0", "0", "0", "0", "0", "0", "0", "0", "0">>,
      <<"a", "a", "a", "a", "a", "a", "a", "a", "a", "a", "a", "a">> }
ParseLines ==
    UNION {[1 .. n -> ParseAlphabet] : n \in 0 .. ParseMaxLen}
    \cup {<<d>> \o Dec(a) : d \in ParseChannels, a \in 0 .. ParseMaxAngle}
    \cup ParseSpecials
ParseFeeds == {p \o l \o NL : p \in ParsePrefixes, l \in ParseLines}

\* SpecMotion: the angles channel 1 starts from and heads for, the clock values
\* it starts at (one of them 100 ms before the clock wraps), and the line that
\* is on the wire
MotionAngles == {0, 1, 90, 179, 180}
MotionClocks == {ULong(2000), [hi |-> Pow2(HALF_BITS) - 1, lo |-> Pow2(HALF_BITS) - 100]}
MotionFeeds ==
    { <<>>,
      <<"1", "0">> \o NL,
      <<"1", "1", "8", "0">> \o NL }

\* SpecPulse: the arguments of angleToPulse(), PulseMargin beyond either end
\* of the range of angles, and the least and greatest int of a 16 bit board
PulseInputs ==
    ((0 - PulseMargin) .. (ANGLE_MAX + PulseMargin))
    \cup {0 - Pow2(HALF_BITS - 1), Pow2(HALF_BITS - 1) - 1}

\* SpecLive: the lines the sender sends, one rejected and one accepted
LiveCorpus ==
    { <<"7", "9", "9", "9">> \o NL,
      <<"1", "9", "1">> \o NL }

\* SpecBoot: the line the sender sends, before or after setup() has returned
BootCorpus == {<<"1", "9", "1">> \o NL}

\* SpecClock: the clock and lastUpdate the run starts with (at the end of
\* setup(), right after a firing 20 ms before the clock wraps, and 14 ms after
\* a firing there), and the current and target angle of channel 1
ClockWrap == [hi |-> Pow2(HALF_BITS) - 1, lo |-> Pow2(HALF_BITS) - 20]
ClockStarts ==
    { [now |-> ULong(SETUP_DELAY_PWM + SETUP_DELAY_HOME), last |-> ULong(0)],
      [now |-> ClockWrap, last |-> ClockWrap],
      [now |-> ClockWrap, last |-> USub(ClockWrap, ULong(UPDATE_INTERVAL - 1))] }
ClockAngles == {<<HOME_ANGLE, HOME_ANGLE>>, <<HOME_ANGLE, HOME_ANGLE + 5>>}

-----------------------------------------------------------------------------
(* The state machine *)

\* the variables that observe a run: no call of angleToPulse() under
\* observation, no updateSmoothMovement() observed yet
Unobserved ==
    /\ tickSeen = FALSE
    /\ pulseArgs = <<HOME_ANGLE, HOME_ANGLE>>
    /\ pulseRes = <<>>

\* the program when setup() has returned and loop() starts
LoopStart(widths, feeds) ==
    /\ pc = "loop"
    /\ currentAngles = setup.cur
    /\ targetAngles = setup.tgt
    /\ lastUpdate = ULong(0)
    /\ inputBuffer = <<>>
    /\ now = ULong(SETUP_DELAY_PWM + SETUP_DELAY_HOME)
    /\ elapsed = 0
    /\ feed \in feeds
    /\ intBits \in widths
    /\ serialOut = setup.out
    /\ pwmWrites = setup.writes
    /\ pwmOut = applyWrites([i \in Channels |-> 0], setup.writes)
    /\ cmdCurrent = setup.cur
    /\ firings = [i \in Channels |-> 0]
    /\ overflowed = FALSE

InitWith(widths, feeds) ==
    /\ Unobserved
    /\ LoopStart(widths, feeds)

\* the sender starts a line
Send(line) ==
    /\ feed = <<>>
    /\ feed' = line
    /\ serialOut' = <<>>
    /\ pwmWrites' = <<>>
    /\ UNCHANGED <<currentAngles, targetAngles, lastUpdate, inputBuffer, now,
                   elapsed, intBits, pwmOut, cmdCurrent, firings, overflowed,
                   pc, tickSeen, pulseArgs, pulseRes>>

\* loop(), Serial.available() > 0: one iteration of the while loop
ReadByte ==
    /\ pc = "loop"
    /\ feed # <<>>
    /\ LET r == readByte(Quiet(currentAngles, targetAngles), inputBuffer,
                         Head(feed), intBits)
       IN  /\ currentAngles' = r.st.cur
           /\ targetAngles' = r.st.tgt
           /\ inputBuffer' = r.buf
           /\ serialOut' = r.st.out
           /\ pwmWrites' = r.st.writes
           /\ pwmOut' = applyWrites(pwmOut, r.st.writes)
           /\ cmdCurrent' = [i \in Channels |->
                  IF i \in r.st.stored THEN currentAngles[i] ELSE cmdCurrent[i]]
           /\ firings' = [i \in Channels |->
                  IF i \in r.st.stored THEN 0 ELSE firings[i]]
           /\ overflowed' = IF Head(feed) = "\n" THEN FALSE
                            ELSE overflowed \/ HasKind(r.st.out, ERR_LONG)
    /\ feed' = Tail(feed)
    /\ UNCHANGED <<lastUpdate, now, elapsed, intBits, pc, tickSeen, pulseArgs,
                   pulseRes>>

\* loop(), Serial.available() == 0: the while loop ends and
\* updateSmoothMovement() runs; the call flips tickSeen when observe is TRUE
Tick(observe) ==
    /\ pc = "loop"
    /\ tickSeen' = IF observe THEN ~tickSeen ELSE tickSeen
    /\ LET r == updateSmoothMovement(Quiet(currentAngles, targetAngles),
                                     lastUpdate, now)
       IN  /\ currentAngles' = r.st.cur
           /\ targetAngles' = r.st.tgt
           /\ lastUpdate' = r.last
           /\ serialOut' = r.st.out
           /\ pwmWrites' = r.st.writes
           /\ pwmOut' = applyWrites(pwmOut, r.st.writes)
    /\ firings' = [i \in Channels |->
           IF intervalElapsed(now, lastUpdate) THEN firings[i] + 1 ELSE firings[i]]
    /\ UNCHANGED <<inputBuffer, now, elapsed, feed, intBits, cmdCurrent,
                   overflowed, pc, pulseArgs, pulseRes>>

\* the clock advances by d milliseconds; loop() polls at least once per update
\* interval, so the clock does not advance while a firing is due
Advance(d, cap) ==
    /\ pc = "loop"
    /\ ~intervalElapsed(now, lastUpdate)
    /\ elapsed + d <= cap
    /\ now' = UAdd(now, d)
    /\ elapsed' = elapsed + d
    /\ serialOut' = <<>>
    /\ pwmWrites' = <<>>
    /\ UNCHANGED <<currentAngles, targetAngles, lastUpdate, inputBuffer, feed,
                   intBits, pwmOut, cmdCurrent, firings, overflowed, pc,
                   tickSeen, pulseArgs, pulseRes>>

Init == InitWith({16}, {<<>>})

Next ==
    \/ \E line \in Corpus : Send(line)
    \/ ReadByte
    \/ Tick(FALSE)
    \/ \E d \in TimeSteps : Advance(d, MaxElapsed)

Spec == Init /\ [][Next]_vars

\* Long runs of channel 1: the program some time after setup(), channel 1 at
\* rest at angle c when the command for angle t arrived, right after a firing,
\* and at most one more line on the wire.
InitMotion ==
    /\ pc = "loop"
    /\ Unobserved
    /\ \E c \in MotionAngles, t \in MotionAngles :
          /\ currentAngles = [setup.cur EXCEPT ![0] = c]
          /\ targetAngles = [setup.tgt EXCEPT ![0] = t]
          /\ pwmOut = [applyWrites([i \in Channels |-> 0], setup.writes)
                          EXCEPT ![0] = angleToPulse(c)]
          /\ cmdCurrent = [setup.cur EXCEPT ![0] = c]
    /\ now \in MotionClocks
    /\ lastUpdate = now
    /\ inputBuffer = <<>>
    /\ elapsed = 0
    /\ feed \in MotionFeeds
    /\ intBits = 16
    /\ serialOut = <<>>
    /\ pwmWrites = <<>>
    /\ firings = [i \in Channels |-> 0]
    /\ overflowed = FALSE

NextMotion ==
    \/ ReadByte
    \/ Tick(FALSE)
    \/ \E d \in MotionTimeSteps : Advance(d, MotionMaxElapsed)

SpecMotion == InitMotion /\ [][NextMotion]_vars

\* The line reader and parser on one line drawn from ParseFeeds, on a board of
\* either width of int
InitParse == InitWith(IntWidths, ParseFeeds)

NextParse == ReadByte

SpecParse == InitParse /\ [][NextParse]_vars

\* The program at power-on: the global initialisers have run, setup() has not
InitBoot ==
    /\ pc = "setup"
    /\ Unobserved
    /\ currentAngles = StaticAngles
    /\ targetAngles = StaticAngles
    /\ lastUpdate = ULong(0)
    /\ inputBuffer = <<>>
    /\ now = ULong(0)
    /\ elapsed = 0
    /\ feed = <<>>
    /\ intBits = 16
    /\ serialOut = <<>>
    /\ pwmWrites = <<>>
    /\ pwmOut = [i \in Channels |-> 0]
    /\ cmdCurrent = StaticAngles
    /\ firings = [i \in Channels |-> 0]
    /\ overflowed = FALSE

\* void setup(), from its first statement to its return
RunSetup ==
    /\ pc = "setup"
    /\ pc' = "loop"
    /\ currentAngles' = setup.cur
    /\ targetAngles' = setup.tgt
    /\ cmdCurrent' = setup.cur
    /\ serialOut' = setup.out
    /\ pwmWrites' = setup.writes
    /\ pwmOut' = applyWrites(pwmOut, setup.writes)
    /\ now' = UAdd(now, SETUP_DELAY_PWM + SETUP_DELAY_HOME)
    /\ UNCHANGED <<lastUpdate, inputBuffer, elapsed, feed, intBits, firings,
                   overflowed, tickSeen, pulseArgs, pulseRes>>

NextBoot ==
    \/ RunSetup
    \/ \E line \in BootCorpus : Send(line)
    \/ ReadByte
    \/ Tick(FALSE)
    \/ \E d \in TimeSteps : Advance(d, MaxElapsed)

SpecBoot == InitBoot /\ [][NextBoot]_vars

\* The control loop for ever: loop() is called again whenever it returns, so
\* the program always takes its next step, an iteration of the while loop when
\* a byte is available and updateSmoothMovement() when none is.  Whether a
\* byte is available is up to the sender.
NextLive ==
    \/ \E line \in LiveCorpus : Send(line)
    \/ ReadByte
    \/ Tick(TRUE)
    \/ \E d \in MotionTimeSteps : Advance(d, MaxElapsed)

SpecLive == Init /\ [][NextLive]_vars /\ WF_vars(Tick(TRUE) \/ ReadByte)

\* The scheduler alone: no input, the clock started at one of ClockStarts
InitClock ==
    /\ pc = "loop"
    /\ Unobserved
    /\ \E a \in ClockAngles :
          /\ currentAngles = [setup.cur EXCEPT ![0] = a[1]]
          /\ targetAngles = [setup.tgt EXCEPT ![0] = a[2]]
          /\ cmdCurrent = [setup.cur EXCEPT ![0] = a[1]]
    /\ \E c \in ClockStarts :
          /\ now = c.now
          /\ lastUpdate = c.last
    /\ pwmOut = applyWrites([i \in Channels |-> 0], setup.writes)
    /\ inputBuffer = <<>>
    /\ elapsed = 0
    /\ feed = <<>>
    /\ intBits = 16
    /\ serialOut = <<>>
    /\ pwmWrites = <<>>
    /\ firings = [i \in Channels |-> 0]
    /\ overflowed = FALSE

NextClock ==
    \/ Tick(FALSE)
    \/ \E d \in TimeSteps : Advance(d, ClockMaxElapsed)

SpecClock == InitClock /\ [][NextClock]_vars

\* angleToPulse() on a pair of arguments drawn from PulseInputs
InitPulse ==
    /\ LoopStart({16}, {<<>>})
    /\ tickSeen = FALSE
    /\ pulseArgs \in PulseInputs \X PulseInputs
    /\ pulseRes = <<>>

ApplyPulse ==
    /\ pulseRes = <<>>
    /\ pulseRes' = <<angleToPulse(pulseArgs[1]), angleToPulse(pulseArgs[2])>>
    /\ UNCHANGED <<currentAngles, targetAngles, lastUpdate, inputBuffer, now,
                   elapsed, feed, intBits, serialOut, pwmWrites, pwmOut,
                   cmdCurrent, firings, overflowed, pc, tickSeen, pulseArgs>>

NextPulse == ApplyPulse

SpecPulse == InitPulse /\ [][NextPulse]_vars

-----------------------------------------------------------------------------
(* Properties *)

Abs(x) == IF x < 0 THEN -x ELSE x
Min2(a, b) == IF a < b THEN a ELSE b
CeilDiv(a, b) == (a + b - 1) \div b

\* the step is a scheduler firing: updateSmoothMovement ran its for loop
Fired == \A i \in Channels : firings'[i] = firings[i] + 1

\* the step is an iteration of the while loop that reads the character c
ReadStep(c) == feed # <<>> /\ Head(feed) = c /\ feed' = Tail(feed)

\* the step is an iteration of the while loop that reads some other character
\* than the terminator
ReadOther == feed # <<>> /\ Head(feed) # "\n" /\ feed' = Tail(feed)

\* whether the last step wrote a pulse to driver channel i
Wrote(i) == \E k \in 1 .. Len(pwmWrites) : pwmWrites[k][1] = i

\* C1: in every reachable state every channel's current angle and target
\* angle are within [0, 180].
C1_AnglesInRange ==
    \A i \in Channels :
        /\ currentAngles[i] \in 0 .. ANGLE_MAX
        /\ targetAngles[i] \in 0 .. ANGLE_MAX

\* channel 1 has swept from 179 down to the bound 0, the last step clamped
C1_Witness ==
    /\ cmdCurrent[0] = 179
    /\ currentAngles[0] = 0
    /\ targetAngles[0] = 0
    /\ firings[0] = 90

\* C2: a scheduler firing changes each channel's current angle by exactly
\* min(SMOOTH_STEP, |target - current|) degrees towards the target as it
\* stands at the firing: never by more than 2, never past the target.
C2_FiringStep ==
    [][Fired =>
        \A i \in Channels :
            LET dist == Abs(targetAngles[i] - currentAngles[i])
                move == Min2(SMOOTH_STEP, dist)
            IN  /\ targetAngles'[i] = targetAngles[i]
                /\ currentAngles'[i] =
                      IF targetAngles[i] >= currentAngles[i]
                      THEN currentAngles[i] + move
                      ELSE currentAngles[i] - move]_vars

\* channel 5 was sent from 90 to 93 and is there after two firings: a full
\* step to 92, then the overshoot to 94 landed on 93
C2_Witness ==
    /\ cmdCurrent[4] = 90
    /\ targetAngles[4] = 93
    /\ firings[4] = 2
    /\ currentAngles[4] = 93

\* C3: a channel that took its last command at current angle c for target t
\* is at t exactly from the ceil(|t - c| / SMOOTH_STEP)-th firing after the
\* command on, and no firing after that one writes a pulse for the channel.
C3_ArrivalCount ==
    \A i \in Channels :
        LET need == CeilDiv(Abs(targetAngles[i] - cmdCurrent[i]), SMOOTH_STEP)
        IN  /\ (currentAngles[i] = targetAngles[i]) <=> (firings[i] >= need)
            /\ (firings[i] > need) => ~Wrote(i)

\* channel 1, commanded from 0 to 90, is at 90 and the 46th firing has just
\* run
C3_Witness ==
    /\ cmdCurrent[0] = 0
    /\ targetAngles[0] = 90
    /\ currentAngles[0] = 90
    /\ firings[0] = 46
    /\ lastUpdate = now

\* the digits "1" .. "6" of the channels
ChannelDigits == {Digits[d + 1] : d \in 1 .. SERVO_COUNT}

\* the number a string of decimal digits denotes
RECURSIVE DecimalValue(_)
DecimalValue(s) ==
    IF s = <<>> THEN 0
    ELSE DecimalValue(SubSeq(s, 1, Len(s) - 1)) * 10 + DigitVal(s[Len(s)])

AllDigits(s) == \A k \in 1 .. Len(s) : IsDigit(s[k])

\* a line of the protocol: one channel digit, then one or more decimal digits
IsCommandLine(line) ==
    /\ Len(line) >= 2
    /\ Len(line) <= BUFFER_LIMIT
    /\ line[1] \in ChannelDigits
    /\ AllDigits(Tail(line))

LineChannel(line) == DigitVal(line[1])
LineAngle(line) == DecimalValue(Tail(line))

\* a line of a channel digit and a minus sign followed by decimal digits that
\* denote a number above 0
IsNegativeLine(line) ==
    /\ Len(line) >= 3
    /\ Len(line) <= BUFFER_LIMIT
    /\ line[1] \in ChannelDigits
    /\ line[2] = "-"
    /\ AllDigits(SubSeq(line, 3, Len(line)))
    /\ DecimalValue(SubSeq(line, 3, Len(line))) > 0

\* the step changes none of the channel state and none of the driver outputs
ChannelsUnchanged ==
    /\ currentAngles' = currentAngles
    /\ targetAngles' = targetAngles
    /\ lastUpdate' = lastUpdate
    /\ pwmOut' = pwmOut
    /\ pwmWrites' = <<>>

\* C4: a terminated protocol line whose angle field denotes a in [0, 180]
\* sets the target angle of its channel to exactly a and prints no ERR line.
C4_ValidLineSetsTarget ==
    [][(ReadStep("\n") /\ IsCommandLine(inputBuffer)
            /\ LineAngle(inputBuffer) <= ANGLE_MAX) =>
        /\ targetAngles'[LineChannel(inputBuffer) - 1] = LineAngle(inputBuffer)
        /\ serialOut' = <<>>]_vars

\* "5120" has set channel 5 to 120 and "190", after "10", would find channel
\* 1 at target 0: here the line 5120 has just been read to its end
C4_Witness ==
    /\ targetAngles[4] = 120
    /\ serialOut = <<>>
    /\ inputBuffer = <<>>
    /\ feed = <<>>

\* C5: a terminated line that the parser rejects prints exactly one ERR line
\* (too short, invalid servo index or invalid angle), leaves every channel's
\* current and target angle, lastUpdate and the driver outputs unchanged and
\* leaves inputBuffer empty, which is the program state a following line would
\* have found without the rejected line.
C5_RejectionLeavesState ==
    [][(ReadStep("\n") /\ serialOut' # <<>>) =>
        /\ Len(serialOut') = 1
        /\ serialOut'[1].kind \in {ERR_SHORT, ERR_INDEX, ERR_ANGLE}
        /\ ChannelsUnchanged
        /\ inputBuffer' = <<>>]_vars

\* "1200" was rejected on a board where channels 1, 5 and 6 had been sent to 0
C5_Witness ==
    /\ serialOut = <<Diag(ERR_ANGLE, 200, <<"1", "2", "0", "0">>)>>
    /\ targetAngles[0] = 0
    /\ inputBuffer = <<>>

\* C6 as stated: once a line has overflowed inputBuffer, no later byte of that
\* line, its terminator included, changes a target angle.
C6_TailIgnored ==
    [][overflowed => targetAngles' = targetAngles]_vars

\* C6 amended: no byte other than a terminator changes a target angle; the
\* byte that makes the line longer than 10 characters prints the overflow
\* diagnostic, changes no channel state and empties inputBuffer; the bytes of
\* the line after it accumulate as a fresh line, which the terminator hands
\* to the parser, so that a tail that is a protocol line with an angle in
\* [0, 180] sets the target of its channel.
C6_OverflowDropsHead ==
    [][/\ ReadOther => targetAngles' = targetAngles
       /\ (ReadOther /\ Len(inputBuffer) = BUFFER_LIMIT) =>
             /\ serialOut' = <<Diag(ERR_LONG, 0, <<>>)>>
             /\ ChannelsUnchanged
             /\ inputBuffer' = <<>>
       /\ (ReadOther /\ overflowed) =>
             \/ inputBuffer' = Append(inputBuffer, Head(feed))
             \/ Len(inputBuffer) = BUFFER_LIMIT
       /\ (ReadStep("\n") /\ overflowed /\ IsCommandLine(inputBuffer)
              /\ LineAngle(inputBuffer) <= ANGLE_MAX) =>
             targetAngles'[LineChannel(inputBuffer) - 1] = LineAngle(inputBuffer)
      ]_vars

\* the tail 588 of the line 00000000000588 has set channel 5 to 88
C6_Witness ==
    /\ targetAngles[4] = 88
    /\ inputBuffer = <<>>
    /\ feed = <<>>

\* C7: inputBuffer never holds more than 10 characters; a byte other than the
\* terminator is appended while the buffer holds fewer than 10 characters
\* (so the first byte after an overflow starts a fresh line), and the byte
\* that arrives when it holds 10, the 11th in a row, prints the overflow
\* diagnostic and leaves the buffer empty.
C7_BufferCap ==
    /\ [](Len(inputBuffer) <= BUFFER_LIMIT)
    /\ [][ReadOther =>
            IF Len(inputBuffer) < BUFFER_LIMIT
            THEN /\ inputBuffer' = Append(inputBuffer, Head(feed))
                 /\ serialOut' = <<>>
            ELSE /\ inputBuffer' = <<>>
                 /\ serialOut' = <<Diag(ERR_LONG, 0, <<>>)>>]_vars

\* the 12th byte of the line 00000000000588 is the one character of the buffer
C7_Witness ==
    /\ overflowed
    /\ inputBuffer = <<"5">>

\* C8 as stated: a protocol line whose angle field denotes a number above 180,
\* or a negative number, is rejected with the invalid angle diagnostic and
\* changes no target angle.
C8_OverRangeRejected ==
    [][(ReadStep("\n")
          /\ \/ IsCommandLine(inputBuffer) /\ LineAngle(inputBuffer) > ANGLE_MAX
             \/ IsNegativeLine(inputBuffer)) =>
        /\ Len(serialOut') = 1
        /\ serialOut'[1].kind = ERR_ANGLE
        /\ targetAngles' = targetAngles]_vars

\* C9: a line of trimmed length at least 2 whose first character is not one
\* of the digits 1 .. 6 is rejected with the invalid servo index diagnostic,
\* carrying the digit's value or 0 for a character that is no digit, whatever
\* the angle field is, and changes no target angle.
C9_ChannelCheckedFirst ==
    [][(ReadStep("\n") /\ Len(trim(inputBuffer)) >= 2
          /\ trim(inputBuffer)[1] \notin ChannelDigits) =>
        LET line == trim(inputBuffer)
            val  == IF IsDigit(line[1]) THEN DigitVal(line[1]) ELSE 0
        IN  /\ serialOut' = <<Diag(ERR_INDEX, val, line)>>
            /\ targetAngles' = targetAngles]_vars

\* "7999" was rejected for its servo index
C9_Witness ==
    serialOut = <<Diag(ERR_INDEX, 7, <<"7", "9", "9", "9">>)>>

\* C10 as stated: every terminator hands the line to the parser, and every
\* line of trimmed length below 2, the empty line included, prints the too
\* short diagnostic and changes no state.
C10_ShortLineDiagnosed ==
    [][(ReadStep("\n") /\ Len(trim(inputBuffer)) < 2) =>
        /\ serialOut' = <<Diag(ERR_SHORT, 0, trim(inputBuffer))>>
        /\ ChannelsUnchanged
        /\ inputBuffer' = <<>>]_vars

\* C10 amended: a terminator that finds inputBuffer empty is ignored without
\* a diagnostic; a terminator that finds it not empty hands the line to the
\* parser and empties the buffer, and a line of trimmed length below 2 (white
\* space only, or a single character) prints the too short diagnostic and
\* changes no channel state.
C10_ShortLineUnlessEmpty ==
    [][ReadStep("\n") =>
        /\ inputBuffer' = <<>>
        /\ inputBuffer = <<>> => (serialOut' = <<>> /\ ChannelsUnchanged)
        /\ (inputBuffer # <<>> /\ Len(trim(inputBuffer)) < 2) =>
              /\ serialOut' = <<Diag(ERR_SHORT, 0, trim(inputBuffer))>>
              /\ ChannelsUnchanged]_vars

\* a line of white space only was diagnosed as too short
C10_Witness ==
    /\ serialOut = <<Diag(ERR_SHORT, 0, <<>>)>>
    /\ inputBuffer = <<>>

\* the angle a clamped to the range 0 .. 180
ClampAngle(a) == IF a < 0 THEN 0 ELSE IF a > 180 THEN 180 ELSE a

\* the pulse width of the angle a in 0 .. 180
PulseOf(a) == 150 + (a * (600 - 150)) \div 180

\* C11: for every integer a, angleToPulse(a) is
\* 150 + floor(clamp(a, 0, 180) * (600 - 150) / 180); the function is
\* monotonically non-decreasing, is 150 at angle 0 and 600 at angle 180, and
\* saturates: 150 for every a < 0 and 600 for every a > 180.
C11_PulseFormula ==
    pulseRes # <<>> =>
        LET a  == pulseArgs[1]
            b  == pulseArgs[2]
            fa == pulseRes[1]
            fb == pulseRes[2]
        IN  /\ fa = PulseOf(ClampAngle(a))
            /\ a <= b => fa <= fb
            /\ a = 0 => fa = 150
            /\ a = 180 => fa = 600
            /\ a < 0 => fa = 150
            /\ a > 180 => fa = 600

\* angleToPulse() has been applied to 91, which does not map to a whole
\* pulse, and to an angle above the range
C11_Witness ==
    /\ pulseArgs = <<91, 200>>
    /\ pulseRes = <<377, 600>>

\* C12: a call of the scheduler with now - lastUpdate < 15 is a no-op: it
\* changes no current angle, writes no pulse and leaves lastUpdate unchanged;
\* a call with now - lastUpdate >= 15 sets lastUpdate to now.  The difference
\* is the unsigned 32 bit one, so two consecutive firings are at least 15 ms
\* apart also across the wrap of the clock: the n-th firing of a run comes no
\* sooner than 15 * (n - 1) ms into it.
C12_IntervalGate ==
    /\ [][Tick(FALSE) =>
            IF UGe(USub(now, lastUpdate), 15)
            THEN lastUpdate' = now
            ELSE /\ lastUpdate' = lastUpdate
                 /\ currentAngles' = currentAngles
                 /\ pwmOut' = pwmOut
                 /\ pwmWrites' = <<>>]_vars
    /\ [](\A i \in Channels : 15 * (firings[i] - 1) <= elapsed)

\* two firings, the second one after the clock has wrapped: lastUpdate is 10
C12_Witness ==
    /\ lastUpdate = ULong(10)
    /\ firings[0] = 2
    /\ elapsed = 30

\* the step is an iteration of the while loop, whatever the character read
ReadAny == feed # <<>> /\ feed' = Tail(feed)

\* the number of pulses the step writes to driver channel i
WritesTo(i) == Cardinality({k \in 1 .. Len(pwmWrites') : pwmWrites'[k][1] = i})

\* C13: after startup the driver is written only by scheduler firings: reading
\* a byte, and so processing a command, writes no pulse; a firing writes
\* exactly one pulse for every channel that was approaching before it and none
\* for a channel at rest, each to the zero-based driver channel of the channel
\* and with the pulse width of the channel's new current angle.
C13_WritesOnlyByFirings ==
    [][/\ ReadAny => pwmWrites' = <<>> /\ pwmOut' = pwmOut
       /\ pwmWrites' # <<>> => Fired
       /\ Fired =>
             /\ \A i \in Channels :
                    WritesTo(i) = IF currentAngles[i] # targetAngles[i] THEN 1 ELSE 0
             /\ \A k \in 1 .. Len(pwmWrites') :
                    /\ pwmWrites'[k][1] \in Channels
                    /\ pwmWrites'[k][2] = PulseOf(currentAngles'[pwmWrites'[k][1]])
      ]_vars

\* a firing with channels 1 and 5 approaching 86 and 93 from 90 has written
\* the pulses of 88 and 92 to driver channels 0 and 4, and nothing else
C13_Witness ==
    /\ pwmWrites = <<<<0, 370>>, <<4, 380>>>>
    /\ currentAngles[0] = 88
    /\ currentAngles[4] = 92

\* the line in inputBuffer is a command of the protocol with an angle in
\* [0, 180]
ValidCommand ==
    /\ IsCommandLine(inputBuffer)
    /\ LineAngle(inputBuffer) <= 180

\* C14: processing a valid command for channel c changes only the target
\* angle of c: every current angle, every other channel's target angle and
\* lastUpdate stay as they were.  No iteration of the read loop changes a
\* current angle: after setup() only a scheduler firing does.
C14_CommandFrame ==
    [][/\ ReadAny =>
             /\ currentAngles' = currentAngles
             /\ lastUpdate' = lastUpdate
       /\ ReadStep("\n") /\ ValidCommand =>
             \A i \in Channels \ {LineChannel(inputBuffer) - 1} :
                 targetAngles'[i] = targetAngles[i]
       /\ currentAngles' # currentAngles => Fired
      ]_vars

\* the command 5120 has been processed while channel 1 was on its way from 90
\* to 86: channel 5 has the new target and has not moved, channel 1 is as it was
C14_Witness ==
    /\ targetAngles[4] = 120
    /\ currentAngles[4] = 90
    /\ firings[4] = 0
    /\ targetAngles[0] = 86
    /\ currentAngles[0] = 88
    /\ firings[0] = 1
    /\ inputBuffer = <<>>
    /\ feed = <<>>
    /\ pwmWrites = <<>>

\* C15: startup homing completes before any input byte is consumed: setup()
\* writes the pulse of 90 degrees, 375, exactly once to each of the driver
\* channels 0 .. 5, and when the control loop starts every channel has current
\* angle and target angle 90 and no byte has been read.
C15_HomingFirst ==
    /\ [][pc = "setup" /\ pc' = "loop" =>
             /\ pwmWrites' = [k \in 1 .. 6 |-> <<k - 1, 375>>]
             /\ pwmOut' = [i \in Channels |-> 375]
             /\ \A i \in Channels :
                    currentAngles'[i] = 90 /\ targetAngles'[i] = 90
             /\ inputBuffer' = <<>>
             /\ feed' = feed]_vars
    /\ [][ReadAny => pc = "loop"]_vars

\* setup() has just returned with a line sent during setup() waiting unread
C15_Witness ==
    /\ pc = "loop"
    /\ Len(pwmWrites) = 6
    /\ feed = <<"1", "9", "1", "\n">>
    /\ inputBuffer = <<>>

\* C16: setting a target is idempotent: a valid command processed when its
\* channel's target angle already is the commanded angle, as it is when the
\* same command has just been processed, leaves the program exactly as it
\* was after the first processing: same current and target angles, same
\* lastUpdate, same driver outputs, an empty buffer, and nothing printed, so
\* the scheduler steps and pulses that follow are the same.
C16_SetTargetIdempotent ==
    [][(/\ ReadStep("\n")
        /\ ValidCommand
        /\ targetAngles[LineChannel(inputBuffer) - 1] = LineAngle(inputBuffer))
       => /\ currentAngles' = currentAngles
          /\ targetAngles' = targetAngles
          /\ lastUpdate' = lastUpdate
          /\ pwmOut' = pwmOut
          /\ pwmWrites' = <<>>
          /\ inputBuffer' = <<>>
          /\ serialOut' = <<>>]_vars

\* the command 593 has been processed and channel 5 has moved to 92; the same
\* command is in the buffer again and its terminator is next
C16_Witness ==
    /\ inputBuffer = <<"5", "9", "3">>
    /\ feed = NL
    /\ targetAngles[4] = 93
    /\ currentAngles[4] = 92

\* C17: in the control loop command intake never starves the scheduler:
\* updateSmoothMovement() is called infinitely often (on which the claim rests
\* that every channel with a valid command and no later one eventually is
\* at rest at its target).
C17_SchedulerNotStarved == []<>tickSeen /\ []<>(~tickSeen)

\* the longest prefix of s that consists of decimal digits
DigitPrefix(s) ==
    LET n == CHOOSE k \in 0 .. Len(s) :
                 /\ \A j \in 1 .. k : IsDigit(s[j])
                 /\ k = Len(s) \/ ~IsDigit(s[k + 1])
    IN  SubSeq(s, 1, n)

\* a line of a channel digit and an angle field that starts with a digit or
\* with a character that is neither white space nor a sign, and that has a
\* character that is no digit
IsLooseLine(line) ==
    /\ Len(line) >= 2
    /\ Len(line) <= BUFFER_LIMIT
    /\ line[1] \in ChannelDigits
    /\ ~IsSpace(line[2])
    /\ line[2] \notin {"-", "+"}
    /\ ~AllDigits(Tail(line))

\* C18: a line whose first character is a channel digit and whose angle
\* field does not start with a number (1abc) is not rejected: the angle is
\* taken as 0 and the channel's target angle is set to 0; an angle field that
\* starts with a number followed by other characters (190x) sets the target
\* to the value of that number, when it is in [0, 180].
C18_NonNumericAngle ==
    [][(/\ ReadStep("\n")
        /\ IsLooseLine(inputBuffer)
        /\ DecimalValue(DigitPrefix(Tail(inputBuffer))) <= 180)
       => /\ targetAngles'[LineChannel(inputBuffer) - 1]
                = DecimalValue(DigitPrefix(Tail(inputBuffer)))
          /\ serialOut' = <<>>]_vars

\* the line 3abc has set the target of channel 3, which no other line sets
\* to 0
C18_Witness ==
    /\ targetAngles[2] = 0
    /\ feed = <<>>
    /\ serialOut = <<>>

Max2(a, b) == IF a > b THEN a ELSE b

\* where a channel is after n firings on the straight way from from to to,
\* 2 degrees a firing
OnTheWay(from, to, n) ==
    IF from <= to THEN Min2(to, from + 2 * n) ELSE Max2(to, from - 2 * n)

\* C19: latest target wins.  A valid command replaces the target of its
\* channel, whatever the target was, and moves nothing, so after several
\* commands for a channel with no firing between them the program is in the
\* state that the last of them alone leaves; from then on the channel is
\* always on the straight way from where it was at the last command to the
\* target of the last command: no earlier target is queued or visited.
C19_LatestTargetWins ==
    /\ [][ReadStep("\n") /\ ValidCommand =>
             /\ targetAngles' = [targetAngles EXCEPT
                    ![LineChannel(inputBuffer) - 1] = LineAngle(inputBuffer)]
             /\ currentAngles' = currentAngles]_vars
    /\ [](\A i \in Channels :
             currentAngles[i] = OnTheWay(cmdCurrent[i], targetAngles[i], firings[i]))

\* the command 186 has been processed, no firing has happened since, and the
\* command 191 for the same channel is in the buffer with its terminator next
C19_Witness ==
    /\ inputBuffer = <<"1", "9", "1">>
    /\ feed = NL
    /\ targetAngles[0] = 86
    /\ currentAngles[0] = 90
    /\ firings[0] = 0
    /\ lastUpdate = ULong(0)

\* C20: in every state reachable after startup homing, the pulse last written
\* to the driver channel of a channel is the pulse width of the channel's
\* current angle, whatever commands and scheduler calls are interleaved.
C20_OutputFollowsCurrent ==
    \A i \in Channels : pwmOut[i] = PulseOf(currentAngles[i])

\* channel 5 has stepped to 92 on its way to 93 and driver channel 4 holds the
\* pulse of 92, while channel 1 is at 88 and a further line is being read
C20_Witness ==
    /\ currentAngles[4] = 92
    /\ targetAngles[4] = 93
    /\ pwmOut[4] = 380
    /\ currentAngles[0] = 88
    /\ pwmOut[0] = 370
    /\ inputBuffer # <<>>

=============================================================================
